---- MODULE Spec2Model ----
(***************************************************************************)
(* DependencyAnalyzer (src/dependency_analyzer.py) as a state machine.     *)
(*                                                                         *)
(* Text is modelled by its structure, since the code only ever splits it:  *)
(*   - a path or an import specifier is the sequence of its '/'-separated  *)
(*     segments,                                                           *)
(*   - a segment (a file or directory name) is the sequence of its         *)
(*     '.'-separated parts: "b.js" is <<"b","js">>, "b" is <<"b">>, "." is *)
(*     <<"","">> and ".." is <<"","","">>,                                 *)
(*   - an extension ".js" is the part "js".                                *)
(* A Python list whose order comes from iterating list(set(...)), which    *)
(* depends on string hashing, is a bag (or a set when its elements are     *)
(* distinct by construction): every order is covered, none is picked.      *)
(***************************************************************************)
EXTENDS Integers, Sequences, FiniteSets, Bags, TLC

VARIABLES
    all_files,          \* self.all_files: the catalog, in dict iteration order
    dependency_graph,   \* self.dependency_graph: [nodes, edges] of the nx.DiGraph
    calls,              \* analyze_dependencies calls made on this instance
    selected_files,     \* the argument of the last call
    content,            \* what the last call's files hold on disk, per node
    unreadable,         \* the nodes whose file the last call failed to open
    unparsable,         \* the .py nodes whose text ast.parse rejected
    result,             \* what the last call returned (or that it raised)
    score_args,         \* <<selected_count, missing_count>> given to
                        \* _calculate_completeness_score called on its own
    score,              \* what that call returned
    resolve_call,       \* _resolve_import_path called on its own
    suggest_call,       \* _suggest_missing_file called on its own
    frame               \* the locals of an analyze_dependencies call that is
                        \* followed statement by statement

analyzer_vars == <<all_files, dependency_graph, calls, selected_files, content,
                   unreadable, unparsable, result>>
helper_vars == <<score_args, score, resolve_call, suggest_call>>

vars == <<analyzer_vars, helper_vars, frame>>

----------------------------------------------------------------------------
(* Bounds of the model *)

\* import statements written across the files one call analyses
MaxImports == 3
\* length of the selected-id list passed to one call
MaxSelected == 3
\* calls made on one analyzer instance under SpecReuse
MaxCalls == 2
\* under SpecScore: the small selected counts, and the missing counts
MaxCount == 10
MaxMissing == 3
\* under SpecFiles: import statements written across the files of one call,
\* the same specifier counted as often as it is written
MaxStatements == 2
\* under SpecSuggest and SpecResolve: files in the catalog
MaxCatalog == 3

----------------------------------------------------------------------------
(* Names, paths, specifiers *)

Dot == <<"", "">>
DotDot == <<"", "", "">>

Range(s) == {s[i] : i \in DOMAIN s}
Min(S) == CHOOSE x \in S : \A y \in S : x <= y
Max(S) == CHOOSE x \in S : \A y \in S : x >= y

\* the values a failed resolution can take: `return None`, and the ValueError
\* that Path.with_suffix raises outside the try block
None == << <<>> >>
Raises == << <<>>, <<>> >>

\* str.startswith('.') on a specifier
StartsWithDot(import_path) ==
    /\ Len(import_path) >= 1
    /\ Len(import_path[1]) >= 2
    /\ import_path[1][1] = ""

\* pathlib: Path.parent of a relative path
Parent(path) == IF path = <<>> THEN <<>> ELSE SubSeq(path, 1, Len(path) - 1)

\* pathlib: Path.resolve() of an absolute path without symlinks: "." is
\* dropped, ".." pops a segment and stays at "/" when there is none
RECURSIVE Normalize(_, _)
Normalize(acc, rest) ==
    IF rest = <<>> THEN acc
    ELSE LET s == Head(rest) IN
         IF s = Dot THEN Normalize(acc, Tail(rest))
         ELSE IF s = DotDot THEN Normalize(Parent(acc), Tail(rest))
         ELSE Normalize(Append(acc, s), Tail(rest))

PathResolve(path) == Normalize(<<>>, path)

\* pathlib: PurePath.suffix is non-empty iff the last '.' of the name is
\* neither its first nor its last character
HasSuffix(name) ==
    /\ Len(name) >= 2
    /\ name[Len(name)] # ""
    /\ ~(Len(name) = 2 /\ name[1] = "")

\* pathlib: PurePath.with_suffix(ext) on a path with a non-empty name: the
\* existing suffix is replaced, a name without suffix gets ext appended
WithSuffix(path, ext) ==
    LET name == path[Len(path)]
        stem == IF HasSuffix(name) THEN SubSeq(name, 1, Len(name) - 1) ELSE name
    IN Append(Parent(path), Append(stem, ext))

\* pathlib: PurePath.relative_to(root) succeeds iff root is a prefix
IsRelativeTo(path, root) ==
    /\ Len(path) >= Len(root)
    /\ SubSeq(path, 1, Len(root)) = root

RelativeTo(path, root) == SubSeq(path, Len(root) + 1, Len(path))

----------------------------------------------------------------------------
(* The catalog (self.all_files) and the project root (self.root_dir) *)

\* "/proj", already absolute and normalised
root_dir == << <<"proj">> >>

\* a catalog as app.py builds it: ids derived from the relative paths, which
\* are therefore unique
PkgCatalog == <<
    [id |-> "pkg_a_js", relative_path |-> << <<"pkg">>, <<"a", "js">> >>, extension |-> "js"],
    [id |-> "pkg_b_js", relative_path |-> << <<"pkg">>, <<"b", "js">> >>, extension |-> "js"],
    [id |-> "pkg_c_js", relative_path |-> << <<"pkg">>, <<"c", "js">> >>, extension |-> "js"] >>

CatalogIds(files) == {files[i].id : i \in DOMAIN files}
FileInfo(files, file_id) == files[CHOOSE i \in DOMAIN files : files[i].id = file_id]
InCatalog(files, relative_path) ==
    \E i \in DOMAIN files : files[i].relative_path = relative_path

----------------------------------------------------------------------------
(* _resolve_import_path *)

Extensions(file_type) ==
    IF file_type = "py" THEN <<"py">> ELSE <<"js", "jsx", "ts", "tsx">>

\* lines 241-242 left out: every specifier is joined to the importing directory
ResolveImportPathAnySpecifier(files, root, import_path, current_dir, file_type) ==
    LET extensions == Extensions(file_type)
        resolved == PathResolve(root \o current_dir \o import_path)
        direct(i) == WithSuffix(resolved, extensions[i])
        index(i) == Append(resolved, <<"index", extensions[i]>>)
        hit(c) == IsRelativeTo(c, root) /\ InCatalog(files, RelativeTo(c, root))
        D == {i \in DOMAIN extensions : hit(direct(i))}
        I == {i \in DOMAIN extensions : hit(index(i))}
    IN IF resolved = <<>> THEN Raises
       ELSE IF D # {} THEN RelativeTo(direct(Min(D)), root)
       ELSE IF I # {} THEN RelativeTo(index(Min(I)), root)
       ELSE None

\* the two loops of lines 252-275 in the other order
ResolveImportPathIndexFirst(files, root, import_path, current_dir, file_type) ==
    IF ~StartsWithDot(import_path) THEN None
    ELSE LET extensions == Extensions(file_type)
             resolved == PathResolve(root \o current_dir \o import_path)
             direct(i) == WithSuffix(resolved, extensions[i])
             index(i) == Append(resolved, <<"index", extensions[i]>>)
             hit(c) == IsRelativeTo(c, root) /\ InCatalog(files, RelativeTo(c, root))
             D == {i \in DOMAIN extensions : hit(direct(i))}
             I == {i \in DOMAIN extensions : hit(index(i))}
         IN IF resolved = <<>> THEN Raises
            ELSE IF I # {} THEN RelativeTo(index(Min(I)), root)
            ELSE IF D # {} THEN RelativeTo(direct(Min(D)), root)
            ELSE None

ResolveImportPath(files, root, import_path, current_dir, file_type) ==
    IF ~StartsWithDot(import_path) THEN None
    ELSE LET extensions == Extensions(file_type)
             resolved == PathResolve(root \o current_dir \o import_path)
             direct(i) == WithSuffix(resolved, extensions[i])
             index(i) == Append(resolved, <<"index", extensions[i]>>)
             hit(c) == IsRelativeTo(c, root) /\ InCatalog(files, RelativeTo(c, root))
             D == {i \in DOMAIN extensions : hit(direct(i))}
             I == {i \in DOMAIN extensions : hit(index(i))}
         IN IF resolved = <<>> THEN Raises
            ELSE IF D # {} THEN RelativeTo(direct(Min(D)), root)
            ELSE IF I # {} THEN RelativeTo(index(Min(I)), root)
            ELSE None

----------------------------------------------------------------------------
(* Inputs of one call *)

\* an id the catalog does not know
UnknownId == "ghost"

\* "./a", "./b", "./c", "./b.js", "./nonexistent"
SpecifierPool == {
    <<Dot, <<"a">>>>, <<Dot, <<"b">>>>, <<Dot, <<"c">>>>,
    <<Dot, <<"b", "js">>>>, <<Dot, <<"nonexistent">>>> }

RECURSIVE SeqsUpTo(_, _)
SeqsUpTo(S, n) ==
    IF n = 0 THEN {<<>>}
    ELSE LET shorter == SeqsUpTo(S, n - 1) IN
         shorter \cup {Append(q, x) : q \in {q \in shorter : Len(q) = n - 1}, x \in S}

\* the selected-id lists: known ids, unknown ids and repetitions
Selections(files, n) == SeqsUpTo(CatalogIds(files) \cup {UnknownId}, n)

\* the subsets of S with at most n elements
RECURSIVE SubsetsUpTo(_, _)
SubsetsUpTo(S, n) ==
    IF n = 0 THEN {{}}
    ELSE LET smaller == SubsetsUpTo(S, n - 1) IN
         smaller \cup {b \cup {x} : b \in {b \in smaller : Cardinality(b) = n - 1}, x \in S}

\* what the files of `ids` can hold: for each a bag of import statements
\* (here each specifier in one statement), at most n statements in all
RECURSIVE Contents(_, _, _)
Contents(ids, pool, n) ==
    IF ids = {} THEN {<<>>}
    ELSE LET f == CHOOSE f \in ids : TRUE IN
         UNION {{(f :> SetToBag(b)) @@ rest : rest \in Contents(ids \ {f}, pool, n - Cardinality(b))}
                : b \in SubsetsUpTo(pool, n)}

\* the function f as a dict built item by item (each f[x] computed once)
RECURSIVE DictOn(_, _)
DictOn(S, f) ==
    IF S = {} THEN <<>>
    ELSE LET x == CHOOSE x \in S : TRUE IN (x :> f[x]) @@ DictOn(S \ {x}, f)

Dict(f) == DictOn(DOMAIN f, f)

\* the inputs of a call on PkgCatalog: per set of node ids, the contents
PkgContents ==
    Dict([ids \in SUBSET CatalogIds(PkgCatalog) |-> Contents(ids, SpecifierPool, MaxImports)])

\* _resolve_import_path is a pure function of its arguments and the catalog:
\* its values on PkgCatalog are computed once and looked up afterwards
ResolveInPkg ==
    LET dirs == {Parent(PkgCatalog[i].relative_path) : i \in DOMAIN PkgCatalog}
        types == {PkgCatalog[i].extension : i \in DOMAIN PkgCatalog}
    IN Dict([k \in SpecifierPool \X dirs \X types |->
               ResolveImportPath(PkgCatalog, root_dir, k[1], k[2], k[3])])

ResolveImportPathOnce(files, root, import_path, current_dir, file_type) ==
    IF /\ files = PkgCatalog
       /\ root = root_dir
       /\ <<import_path, current_dir, file_type>> \in DOMAIN ResolveInPkg
    THEN ResolveInPkg[<<import_path, current_dir, file_type>>]
    ELSE ResolveImportPath(files, root, import_path, current_dir, file_type)

----------------------------------------------------------------------------
(* _extract_imports: a file's text is the bag of specifiers its import      *)
(* statements name (what re.findall / ast.walk collect, with repetitions)   *)

\* first parts that begin with '@'
AtNames == {"@scope"}

StartsWithAt(imp) == Len(imp) >= 1 /\ Len(imp[1]) >= 1 /\ imp[1][1] \in AtNames

\* '/' in imp
ContainsSlash(imp) == Len(imp) >= 2

ExtractJavascriptImports(statements) ==
    {imp \in BagToSet(statements) :
        StartsWithDot(imp) \/ StartsWithAt(imp) \/ ContainsSlash(imp)}

\* a module text without its leading dots: <<>> when it was dots only
RECURSIVE StripDots(_)
StripDots(name) ==
    IF name = <<>> THEN <<>>
    ELSE IF Head(name) = "" THEN StripDots(Tail(name))
    ELSE name

\* node.module taken for the module text as written, dots included
AstImportsKeepingDots(statements) == BagToSet(statements)

\* the ast branch (lines 129-137): alias.name of `import X`, node.module of
\* `from X import y`, which is X without the dots of a relative import and
\* is skipped when X is dots only
AstImports(statements) ==
    {<<StripDots(text[1])>> : text \in {t \in BagToSet(statements) : StripDots(t[1]) # <<>>}}

\* the fallback branch (lines 138-142): what the two patterns capture, the
\* module text as written
PatternImports(statements) == BagToSet(statements)

\* the syntax-error fallback left out: nothing is extracted
ExtractPythonImportsNoFallback(parses, statements) ==
    IF parses THEN AstImports(statements) ELSE {}

\* _extract_python_imports on a text that parses or raises SyntaxError
ExtractPythonImportsOf(parses, statements) ==
    IF parses THEN AstImports(statements) ELSE PatternImports(statements)

\* every collected module name is kept, a bare one as well
ExtractPythonImports(statements) == ExtractPythonImportsOf(TRUE, statements)

\* the elif of line 118 taken for every extension that is not .py
ExtractImportsAnyExtension(statements, extension) ==
    IF extension = "py" THEN ExtractPythonImports(statements)
    ELSE ExtractJavascriptImports(statements)

ExtractImports(statements, extension) ==
    IF extension = "py" THEN ExtractPythonImports(statements)
    ELSE IF extension \in {"js", "jsx", "ts", "tsx"}
         THEN ExtractJavascriptImports(statements)
         ELSE {}

----------------------------------------------------------------------------
(* analyze_dependencies, lines 54-84: the nodes, in dict insertion order *)

RECURSIVE FirstOccurrences(_, _)
FirstOccurrences(seq, seen) ==
    IF seq = <<>> THEN <<>>
    ELSE IF Head(seq) \in seen THEN FirstOccurrences(Tail(seq), seen)
    ELSE <<Head(seq)>> \o FirstOccurrences(Tail(seq), seen \cup {Head(seq)})

\* the keys of `nodes`: the selected ids the catalog knows, each once, in
\* the order of their first occurrence
NodeOrder(files, selected) ==
    FirstOccurrences(SelectSeq(selected, LAMBDA fid : fid \in CatalogIds(files)), {})

\* _extract_imports as a whole: `imports = []` is what it returns when
\* open() or read() raises
ExtractImportsOfFile(readable, parses, statements, extension) ==
    IF ~readable THEN {}
    ELSE IF extension = "py" THEN ExtractPythonImportsOf(parses, statements)
    ELSE ExtractImports(statements, extension)

\* the same for a text that parses
ExtractImportsOf(readable, statements, extension) ==
    ExtractImportsOfFile(readable, TRUE, statements, extension)

\* the symbols the export patterns find in a file's text: in the model
\* every file declares one symbol, named after the file
DeclaredSymbols(file_id) == {file_id}

\* _extract_exports: `exports = []` is what it keeps when open() or read()
\* raises
ExtractExportsOf(readable, declared) == IF readable THEN declared ELSE {}

NewNodeReading(files, file_id, readable, parses, statements) ==
    LET file_info == FileInfo(files, file_id) IN
    [file_id |-> file_id,
     file_path |-> file_info.relative_path,
     file_type |-> file_info.extension,
     imports |-> ExtractImportsOfFile(readable, parses, statements, file_info.extension),
     exports |-> ExtractExportsOf(readable, DeclaredSymbols(file_id)),
     dependencies |-> EmptyBag,
     dependents |-> EmptyBag,
     is_entry_point |-> FALSE,
     is_leaf |-> FALSE]

NewNode(files, file_id, statements) == NewNodeReading(files, file_id, TRUE, TRUE, statements)

----------------------------------------------------------------------------
(* _resolve_dependencies *)

\* the loop of lines 204-207 leaving after the first id the catalog knows
FilePathToIdOfFirst(files, selected) ==
    LET known == {i \in DOMAIN selected : selected[i] \in CatalogIds(files)}
        first == {i \in known : i = Min(known)}
        paths == {FileInfo(files, selected[i]).relative_path : i \in first}
    IN Dict([p \in paths |->
          selected[Max({i \in first : FileInfo(files, selected[i]).relative_path = p})]])

\* file_path_to_id: relative path -> id over the selected ids the catalog
\* knows (a later id overwrites an earlier one with the same path)
FilePathToId(files, selected) ==
    LET known == {i \in DOMAIN selected : selected[i] \in CatalogIds(files)}
        paths == {FileInfo(files, selected[i]).relative_path : i \in known}
    IN Dict([p \in paths |->
          selected[Max({i \in known : FileInfo(files, selected[i]).relative_path = p})]])

IsPath(resolved_path) == resolved_path # None /\ resolved_path # Raises

\* what lines 214-218 and 295-299 compute for each import of `node`
ResolveImports(files, root, node) ==
    Dict([imp \in node.imports |->
            ResolveImportPathOnce(files, root, imp, Parent(node.file_path), node.file_type)])


\* line 223 left out: a self-import reaches the appends
EdgeImportsWithSelf(file_path_to_id, node, resolved) ==
    {imp \in node.imports :
        IsPath(resolved[imp]) /\ resolved[imp] \in DOMAIN file_path_to_id}

\* the imports of `node` for which lines 220-223 reach the appends
EdgeImports(file_path_to_id, node, resolved) ==
    {imp \in node.imports :
        /\ IsPath(resolved[imp])
        /\ resolved[imp] \in DOMAIN file_path_to_id
        /\ file_path_to_id[resolved[imp]] # node.file_id}

\* node.dependencies after the loop: one append per import that resolves
\* to another selected file
Dependencies(file_path_to_id, node, resolved) ==
    LET E == EdgeImports(file_path_to_id, node, resolved)
        T == {file_path_to_id[resolved[imp]] : imp \in E}
    IN Dict([t \in T |-> Cardinality({imp \in E : file_path_to_id[resolved[imp]] = t})])


\* line 227 appending to the importer's list instead of the imported file's
DependentsOfImporter(dependencies, dep) == dependencies[dep]

\* nodes[dep].dependents after the loop: the importer, once per append;
\* dependencies is the dependencies list of every node
Dependents(dependencies, dep) ==
    LET S == {f \in DOMAIN dependencies : BagIn(dep, dependencies[f])}
    IN Dict([f \in S |-> CopiesIn(dep, dependencies[f])])

IsEntryPoint(dependents) == BagCardinality(dependents) = 0

\* line 233 with an off-by-one comparison
IsLeafAtMostOne(dependencies) == BagCardinality(dependencies) <= 1

IsLeaf(dependencies) == BagCardinality(dependencies) = 0

\* `nodes` once _resolve_dependencies has returned; resolved[f] is
\* ResolveImports of node f
ResolveDependencies(files, selected, nodes, resolved) ==
    LET file_path_to_id == FilePathToId(files, selected)
        dependencies == Dict([f \in DOMAIN nodes |->
                                Dependencies(file_path_to_id, nodes[f], resolved[f])])
    IN Dict([f \in DOMAIN nodes |->
              LET dependents == Dependents(dependencies, f) IN
              [nodes[f] EXCEPT !.dependencies = dependencies[f],
                               !.dependents = dependents,
                               !.is_entry_point = IsEntryPoint(dependents),
                               !.is_leaf = IsLeaf(dependencies[f])]])


\* add_edge with its arguments swapped
GraphEdgesReversed(nodes) ==
    UNION {{<<t, f>> : t \in BagToSet(nodes[f].dependencies)} : f \in DOMAIN nodes}

\* the edges add_edge has registered, one call per append
GraphEdges(nodes) ==
    UNION {{<<f, t>> : t \in BagToSet(nodes[f].dependencies)} : f \in DOMAIN nodes}

----------------------------------------------------------------------------
(* _suggest_missing_file and _find_missing_dependencies *)

NoSuggestion == [file_id |-> "", confidence |-> 0, reason |-> "File not found"]

\* the characters of the name parts that have more than one
Spelling ==
    ("" :> <<>>) @@ ("js" :> <<"j", "s">>) @@ ("ts" :> <<"t", "s">>)
    @@ ("py" :> <<"p", "y">>) @@ ("main" :> <<"m", "a", "i", "n">>)
    @@ ("utils" :> <<"u", "t", "i", "l", "s">>)
    @@ ("my_utils" :> <<"m", "y", "_", "u", "t", "i", "l", "s">>)
    @@ ("other" :> <<"o", "t", "h", "e", "r">>)
    @@ ("helper" :> <<"h", "e", "l", "p", "e", "r">>)
    @@ ("index" :> <<"i", "n", "d", "e", "x">>)

Chars(part) == IF part \in DOMAIN Spelling THEN Spelling[part] ELSE <<part>>

\* a file name as the string it is: its parts joined by '.'
RECURSIVE NameChars(_)
NameChars(name) ==
    IF Len(name) = 1 THEN Chars(name[1])
    ELSE Chars(name[1]) \o <<".">> \o NameChars(Tail(name))

\* `inner in outer` between two file names (str containment)
NameContains(outer, inner) ==
    LET o == NameChars(outer)
        n == NameChars(inner)
    IN \E k \in 1..(Len(o) - Len(n) + 1) : SubSeq(o, k, k + Len(n) - 1) = n


\* a suggester that lacks the exact-path tier
SuggestMissingFileNoExactTier(files, missing_path) ==
    LET missing_name == missing_path[Len(missing_path)]
        file_name(i) == files[i].relative_path[Len(files[i].relative_path)]
        candidates == {i \in DOMAIN files : file_name(i) = missing_name}
    IN IF candidates # {}
       THEN [file_id |-> files[Min(candidates)].id, confidence |-> 8,
             reason |-> "Filename matches"]
       ELSE NoSuggestion

\* confidence in tenths (10 is 1.0, 8 is 0.8, 5 is 0.5); the reasons that
\* embed a path keep only their fixed prefix
SuggestMissingFile(files, missing_path) ==
    LET exact == {i \in DOMAIN files : files[i].relative_path = missing_path}
        missing_name == missing_path[Len(missing_path)]
        file_name(i) == files[i].relative_path[Len(files[i].relative_path)]
        same(i) == file_name(i) = missing_name
        similar(i) == NameContains(file_name(i), missing_name)
                      \/ NameContains(missing_name, file_name(i))
        candidates == {i \in DOMAIN files : same(i) \/ similar(i)}
    IN IF exact # {}
       THEN [file_id |-> files[Min(exact)].id, confidence |-> 10,
             reason |-> "Exact path match found"]
       ELSE IF candidates # {}
       THEN LET i == Min(candidates) IN
            IF same(i)
            THEN [file_id |-> files[i].id, confidence |-> 8, reason |-> "Filename matches"]
            ELSE [file_id |-> files[i].id, confidence |-> 5, reason |-> "Similar filename"]
       ELSE NoSuggestion

\* selected_paths of _find_missing_dependencies
SelectedPaths(files, selected) ==
    {FileInfo(files, fid).relative_path : fid \in Range(selected) \cap CatalogIds(files)}

\* line 301 without the test against selected_paths
MissingImportsAnyResolved(selected_paths, node, resolved) ==
    {imp \in node.imports : IsPath(resolved[imp])}

\* the imports of `node` for which line 301 holds
MissingImports(selected_paths, node, resolved) ==
    {imp \in node.imports :
        IsPath(resolved[imp]) /\ resolved[imp] \notin selected_paths}

\* line 301 without `resolved_path and`: an import that resolves to
\* nothing is reported as well, with the fallback of lines 308-310
FindMissingDependenciesWithUnresolved(files, selected, nodes, resolved) ==
    LET selected_paths == SelectedPaths(files, selected) IN
    {LET suggestion == IF IsPath(resolved[e[1]][e[2]])
                       THEN SuggestMissingFile(files, resolved[e[1]][e[2]])
                       ELSE NoSuggestion IN
     [required_by |-> e[1],
      required_by_path |-> nodes[e[1]].file_path,
      missing_import |-> e[2],
      suggested_file |-> suggestion.file_id,
      confidence |-> suggestion.confidence,
      reason |-> suggestion.reason]
     : e \in UNION {{<<f, imp>> : imp \in {imp \in nodes[f].imports :
                                              resolved[f][imp] \notin selected_paths}}
                    : f \in DOMAIN nodes}}

\* the returned list: one entry per (node, import) the loop appends for;
\* node.imports holds each specifier once, so the entries are distinct
FindMissingDependencies(files, selected, nodes, resolved) ==
    LET selected_paths == SelectedPaths(files, selected) IN
    {LET suggestion == SuggestMissingFile(files, resolved[e[1]][e[2]]) IN
     [required_by |-> e[1],
      required_by_path |-> nodes[e[1]].file_path,
      missing_import |-> e[2],
      suggested_file |-> suggestion.file_id,
      confidence |-> suggestion.confidence,
      reason |-> suggestion.reason]
     : e \in UNION {{<<f, imp>> : imp \in MissingImports(selected_paths, nodes[f], resolved[f])}
                    : f \in DOMAIN nodes}}

----------------------------------------------------------------------------
(* _detect_circular_dependencies: networkx.simple_cycles on the backing    *)
(* graph. Every elementary cycle is produced once; it is kept here in the  *)
(* rotation that starts at its first node in the iteration order `rank`,   *)
(* found by extending simple paths from that node through later nodes.     *)

RECURSIVE CyclesThrough(_, _, _, _)
CyclesThrough(graph, rank, start, path) ==
    LET last == path[Len(path)]
        closing == IF <<last, start>> \in graph.edges THEN {path} ELSE {}
        onward == {n \in graph.nodes :
                      /\ <<last, n>> \in graph.edges
                      /\ rank[n] > rank[start]
                      /\ n \notin Range(path)}
    IN closing \cup UNION {CyclesThrough(graph, rank, start, Append(path, n)) : n \in onward}

SimpleCycles(graph, rank) ==
    UNION {CyclesThrough(graph, rank, start, <<start>>) : start \in graph.nodes}

\* the position of each catalog id in the catalog
CatalogRank(files) == [fid \in CatalogIds(files) |->
                         CHOOSE i \in DOMAIN files : files[i].id = fid]

DetectCircularDependencies(graph, files) == SimpleCycles(graph, CatalogRank(files))

----------------------------------------------------------------------------
(* Numbers. A float the code rounds to 2 decimals is kept in hundredths.   *)

\* round(numerator / denominator) to the nearest integer, ties to even
RoundHalfEven(numerator, denominator) ==
    LET q == numerator \div denominator
        r == numerator % denominator
    IN IF 2 * r < denominator THEN q
       ELSE IF 2 * r > denominator THEN q + 1
       ELSE IF q % 2 = 0 THEN q ELSE q + 1


\* the share of the missing files instead of the selected ones
CompletenessScoreOfMissing(selected_count, missing_count) ==
    IF selected_count = 0 THEN 0
    ELSE RoundHalfEven(10000 * missing_count, selected_count + missing_count)

\* line 428 returning 100.0 for an empty selection
CompletenessScoreFullWhenEmpty(selected_count, missing_count) ==
    IF selected_count = 0 THEN 10000
    ELSE RoundHalfEven(10000 * selected_count, selected_count + missing_count)

\* _calculate_completeness_score, in hundredths of a percent point
CalculateCompletenessScore(selected_count, missing_count) ==
    IF selected_count = 0 THEN 0
    ELSE RoundHalfEven(10000 * selected_count, selected_count + missing_count)

RECURSIVE SumOver(_, _)
SumOver(S, f) ==
    IF S = {} THEN 0
    ELSE LET x == CHOOSE x \in S : TRUE IN f[x] + SumOver(S \ {x}, f)

NoFile == [file_id |-> "", file_path |-> <<>>, dependent_count |-> 0]

\* max() keeping the last of several maxima
CalculateMetricsLastMaximum(nodes, order) ==
    LET total_files == Len(order)
        dep_counts == [f \in DOMAIN nodes |-> BagCardinality(nodes[f].dependencies)]
        dependent_counts == [f \in DOMAIN nodes |-> BagCardinality(nodes[f].dependents)]
        actual_deps == SumOver(DOMAIN nodes, dep_counts)
        total_possible_deps == total_files * (total_files - 1)
        most == Max({i \in DOMAIN order :
                        \A j \in DOMAIN order :
                            dependent_counts[order[j]] <= dependent_counts[order[i]]})
    IN IF total_files = 0
       THEN [total_files |-> 0, entry_points |-> 0, leaf_nodes |-> 0,
             average_dependencies |-> 0, max_dependencies |-> 0,
             most_dependent_file |-> NoFile, coupling_score |-> 0]
       ELSE [total_files |-> total_files,
             entry_points |-> Cardinality({f \in DOMAIN nodes : nodes[f].is_entry_point}),
             leaf_nodes |-> Cardinality({f \in DOMAIN nodes : nodes[f].is_leaf}),
             average_dependencies |-> RoundHalfEven(100 * actual_deps, total_files),
             max_dependencies |-> Max({dep_counts[f] : f \in DOMAIN nodes}),
             most_dependent_file |->
                 [file_id |-> order[most],
                  file_path |-> nodes[order[most]].file_path,
                  dependent_count |-> dependent_counts[order[most]]],
             coupling_score |->
                 IF total_possible_deps > 0
                 THEN RoundHalfEven(10000 * actual_deps, total_possible_deps)
                 ELSE 0]

\* _calculate_metrics; order is the iteration order of `nodes`
CalculateMetrics(nodes, order) ==
    LET total_files == Len(order)
        dep_counts == [f \in DOMAIN nodes |-> BagCardinality(nodes[f].dependencies)]
        dependent_counts == [f \in DOMAIN nodes |-> BagCardinality(nodes[f].dependents)]
        actual_deps == SumOver(DOMAIN nodes, dep_counts)
        total_possible_deps == total_files * (total_files - 1)
        \* max() keeps the first of several maxima
        most == Min({i \in DOMAIN order :
                        \A j \in DOMAIN order :
                            dependent_counts[order[j]] <= dependent_counts[order[i]]})
    IN IF total_files = 0
       THEN [total_files |-> 0, entry_points |-> 0, leaf_nodes |-> 0,
             average_dependencies |-> 0, max_dependencies |-> 0,
             most_dependent_file |-> NoFile, coupling_score |-> 0]
       ELSE [total_files |-> total_files,
             entry_points |-> Cardinality({f \in DOMAIN nodes : nodes[f].is_entry_point}),
             leaf_nodes |-> Cardinality({f \in DOMAIN nodes : nodes[f].is_leaf}),
             average_dependencies |-> RoundHalfEven(100 * actual_deps, total_files),
             max_dependencies |-> Max({dep_counts[f] : f \in DOMAIN nodes}),
             most_dependent_file |->
                 [file_id |-> order[most],
                  file_path |-> nodes[order[most]].file_path,
                  dependent_count |-> dependent_counts[order[most]]],
             coupling_score |->
                 IF total_possible_deps > 0
                 THEN RoundHalfEven(10000 * actual_deps, total_possible_deps)
                 ELSE 0]

\* _generate_graph_data with one edge per distinct target of a node
GenerateGraphDataDistinctEdges(nodes) ==
    [nodes |-> [f \in DOMAIN nodes |->
                  [id |-> f,
                   is_entry_point |-> nodes[f].is_entry_point,
                   is_leaf |-> nodes[f].is_leaf,
                   dependency_count |-> BagCardinality(nodes[f].dependencies),
                   dependent_count |-> BagCardinality(nodes[f].dependents)]],
     edges |-> LET pairs == UNION {{<<f, t>> : t \in BagToSet(nodes[f].dependencies)}
                                    : f \in DOMAIN nodes}
               IN [e \in pairs |-> 1]]

\* _generate_graph_data: one graph node per node, one edge per element of
\* each node's dependencies (a bag of <<source, target>>)
GenerateGraphData(nodes) ==
    [nodes |-> [f \in DOMAIN nodes |->
                  [id |-> f,
                   is_entry_point |-> nodes[f].is_entry_point,
                   is_leaf |-> nodes[f].is_leaf,
                   dependency_count |-> BagCardinality(nodes[f].dependencies),
                   dependent_count |-> BagCardinality(nodes[f].dependents)]],
     edges |-> LET pairs == UNION {{<<f, t>> : t \in BagToSet(nodes[f].dependencies)}
                                    : f \in DOMAIN nodes}
               IN [e \in pairs |-> CopiesIn(e[2], nodes[e[1]].dependencies)]]

----------------------------------------------------------------------------
(* analyze_dependencies *)

\* the number of nodes in place of len(selected_files)
SelectedCountOfNodes(selected, order) == Len(order)

\* the first argument of _calculate_completeness_score: len(selected_files)
SelectedCount(selected, order) == Len(selected)

\* the call's outcome on an analyzer whose backing graph is `graph`, when
\* the files of `failing` cannot be read and those of `broken` do not parse
AnalyzeDependenciesReading(files, root, graph, selected, statements, failing, broken) ==
    LET order == NodeOrder(files, selected)
        new == Dict([f \in Range(order) |->
                       NewNodeReading(files, f, f \notin failing, f \notin broken,
                                      statements[f])])
        resolved == Dict([f \in Range(order) |-> ResolveImports(files, root, new[f])])
        raising == {f \in Range(order) : \E imp \in new[f].imports : resolved[f][imp] = Raises}
        nodes == ResolveDependencies(files, selected, new, resolved)
        graph_after == [nodes |-> graph.nodes \cup Range(order),
                        edges |-> graph.edges \cup GraphEdges(nodes)]
        missing_deps == FindMissingDependencies(files, selected, nodes, resolved)
    IN [raised |-> raising # {},
        graph |-> graph_after,
        result |->
            [status |-> "returned",
             order |-> order,
             nodes |-> nodes,
             missing_dependencies |-> missing_deps,
             circular_dependencies |-> DetectCircularDependencies(graph_after, files),
             metrics |-> CalculateMetrics(nodes, order),
             graph |-> GenerateGraphData(nodes),
             completeness_score |->
                 CalculateCompletenessScore(SelectedCount(selected, order),
                                            Cardinality(missing_deps))]]

\* the call's outcome when every file can be read
AnalyzeDependencies(files, root, graph, selected, statements) ==
    AnalyzeDependenciesReading(files, root, graph, selected, statements, {}, {})

\* DependencyAnalyzer.__init__
NewAnalyzer(files) ==
    /\ all_files' = files
    /\ dependency_graph' = [nodes |-> {}, edges |-> {}]
    /\ calls' = 0
    /\ selected_files' = <<>>
    /\ content' = <<>>
    /\ unreadable' = {}
    /\ unparsable' = {}
    /\ result' = [status |-> "none"]
    /\ UNCHANGED <<helper_vars, frame>>

AnalyzeReading(selected, statements, failing, broken) ==
    LET out == AnalyzeDependenciesReading(all_files, root_dir, dependency_graph,
                                          selected, statements, failing, broken) IN
    /\ ~out.raised
    /\ dependency_graph' = out.graph
    /\ result' = out.result
    /\ calls' = calls + 1
    /\ selected_files' = selected
    /\ content' = statements
    /\ unreadable' = failing
    /\ unparsable' = broken
    /\ UNCHANGED <<all_files, helper_vars, frame>>

Analyze(selected, statements) == AnalyzeReading(selected, statements, {}, {})

\* _calculate_completeness_score has not been called on its own
NoScore == [status |-> "none"]

\* no helper has been called on its own, no call is being followed
NoCall == [status |-> "none"]

\* a freshly constructed analyzer on the catalog `files`
FreshAnalyzer(files) ==
    /\ all_files = files
    /\ dependency_graph = [nodes |-> {}, edges |-> {}]
    /\ calls = 0
    /\ selected_files = <<>>
    /\ content = <<>>
    /\ unreadable = {}
    /\ unparsable = {}
    /\ result = [status |-> "none"]

ConstructedOn(files) ==
    /\ FreshAnalyzer(files)
    /\ resolve_call = NoCall
    /\ suggest_call = NoCall
    /\ frame = NoCall

\* a freshly constructed analyzer on PkgCatalog
Constructed == ConstructedOn(PkgCatalog)

Init == Constructed /\ score_args = <<0, 0>> /\ score = NoScore

\* app.py builds an analyzer for each request and calls it once
FirstCall ==
    /\ calls = 0
    /\ \E selected \in Selections(all_files, MaxSelected) :
         \E statements \in PkgContents[Range(NodeOrder(all_files, selected))] :
             Analyze(selected, statements)

Construct == calls > 0 /\ NewAnalyzer(all_files)

Next == FirstCall \/ Construct

Spec == Init /\ [][Next]_vars

----------------------------------------------------------------------------
(* One analyzer called several times: nothing in the class forbids it *)

ReuseContents ==
    Dict([ids \in SUBSET CatalogIds(PkgCatalog) |->
            Contents(ids, SpecifierPool, MaxImports - 1)])

AnyCall ==
    /\ calls < MaxCalls
    /\ \E selected \in Selections(all_files, MaxSelected - 1) :
         \E statements \in ReuseContents[Range(NodeOrder(all_files, selected))] :
             Analyze(selected, statements)

NextReuse == AnyCall

SpecReuse == Init /\ [][NextReuse]_vars

----------------------------------------------------------------------------
(* Files of both language families, import statements that repeat a         *)
(* specifier or name a package, and files that cannot be read               *)

\* main.js at the project root, pkg/b.js, pkg/c.js and pkg/m.py
MixedCatalog == <<
    [id |-> "main_js", relative_path |-> << <<"main", "js">> >>, extension |-> "js"],
    [id |-> "pkg_b_js", relative_path |-> << <<"pkg">>, <<"b", "js">> >>, extension |-> "js"],
    [id |-> "pkg_c_js", relative_path |-> << <<"pkg">>, <<"c", "js">> >>, extension |-> "js"],
    [id |-> "pkg_m_py", relative_path |-> << <<"pkg">>, <<"m", "py">> >>, extension |-> "py"] >>

\* what the import patterns capture from a .js file:
\* "./pkg/b", "./pkg/c", "./c", "pkg/b", "@scope/x", "react"
JsSpecifierPool == {
    <<Dot, <<"pkg">>, <<"b">>>>, <<Dot, <<"pkg">>, <<"c">>>>, <<Dot, <<"c">>>>,
    << <<"pkg">>, <<"b">> >>, << <<"@scope">>, <<"x">> >>, << <<"react">> >> }

\* the module texts the import statements of a .py file name: "os" and
\* "b" (`import os`, `from b import x`), ".b" and "." (`from .b import x`,
\* `from . import y`)
PyModulePool == { << <<"os">> >>, << <<"b">> >>, << <<"", "b">> >>, <<Dot>> }

StatementPool(extension) == IF extension = "py" THEN PyModulePool ELSE JsSpecifierPool

\* the bags over S with at most n elements
RECURSIVE BagsUpTo(_, _)
BagsUpTo(S, n) ==
    IF n = 0 THEN {EmptyBag}
    ELSE LET smaller == BagsUpTo(S, n - 1) IN
         smaller \cup {b (+) SetToBag({x}) :
                          b \in {b \in smaller : BagCardinality(b) = n - 1}, x \in S}

\* what the files of `ids` can hold: for each the bag of specifiers its
\* import statements name, at most n statements in all
RECURSIVE FileContents(_, _, _)
FileContents(files, ids, n) ==
    IF ids = {} THEN {<<>>}
    ELSE LET f == CHOOSE f \in ids : TRUE IN
         UNION {{(f :> b) @@ rest :
                   rest \in FileContents(files, ids \ {f}, n - BagCardinality(b))}
                : b \in BagsUpTo(StatementPool(FileInfo(files, f).extension), n)}

MixedContents ==
    Dict([ids \in SUBSET CatalogIds(MixedCatalog) |->
            FileContents(MixedCatalog, ids, MaxStatements)])

InitFiles == ConstructedOn(MixedCatalog) /\ score_args = <<0, 0>> /\ score = NoScore

\* what can go wrong with the files of `ids`: nothing, or one file that
\* cannot be opened, or one .py file that does not parse
Faults(files, ids) ==
    {[failing |-> {}, broken |-> {}]}
    \cup {[failing |-> {f}, broken |-> {}] : f \in ids}
    \cup {[failing |-> {}, broken |-> {f}]
             : f \in {f \in ids : FileInfo(files, f).extension = "py"}}

\* one call on a fresh analyzer
ReadAndAnalyze ==
    /\ calls = 0
    /\ \E selected \in Selections(all_files, MaxSelected - 1) :
         LET ids == Range(NodeOrder(all_files, selected)) IN
         \E statements \in MixedContents[ids] :
             \E fault \in Faults(all_files, ids) :
                 AnalyzeReading(selected, statements, fault.failing, fault.broken)

NextFiles == ReadAndAnalyze \/ Construct

SpecFiles == InitFiles /\ [][NextFiles]_vars

----------------------------------------------------------------------------
(* _calculate_completeness_score on its own, on counts an analysis of the  *)
(* model's size does not reach                                             *)

\* small counts, and the counts around 19999 selected per missing file,
\* where rounding to 2 decimals reaches 100.0
SelectedCounts ==
    (0..MaxCount) \cup {19999 * m + d : m \in 1..MaxMissing, d \in {-1, 0, 1}} \cup {20000}

InitScore ==
    /\ Constructed
    /\ score_args \in SelectedCounts \X (0..MaxMissing)
    /\ score = NoScore

ComputeScore ==
    /\ score = NoScore
    /\ score' = [status |-> "returned",
                 value |-> CalculateCompletenessScore(score_args[1], score_args[2])]
    /\ UNCHANGED <<analyzer_vars, score_args, resolve_call, suggest_call, frame>>

NextScore == ComputeScore

SpecScore == InitScore /\ [][NextScore]_vars

----------------------------------------------------------------------------
(* analyze_dependencies followed statement by statement: `frame` holds the  *)
(* locals of the call, frame.pc the statement to execute next, frame.ran    *)
(* how often each statement of lines 86-94 has been executed                *)

\* lines 213-229 for the node f, whose imports give the appends `deps`
InsertEdgesOf(nodes, f, deps) ==
    [g \in DOMAIN nodes |->
        IF g = f THEN [nodes[g] EXCEPT !.dependencies = @ (+) deps]
        ELSE IF BagIn(g, deps)
             THEN [nodes[g] EXCEPT !.dependents = @ (+) (f :> CopiesIn(g, deps))]
             ELSE nodes[g]]

\* lines 231-233
FinalizeFlagsOf(nodes) ==
    [f \in DOMAIN nodes |->
        [nodes[f] EXCEPT !.is_entry_point = IsEntryPoint(nodes[f].dependents),
                         !.is_leaf = IsLeaf(nodes[f].dependencies)]]

\* the loop of line 209 exits before its last node
LoopDoneBeforeLast(todo) == Len(todo) <= 1

\* the loop of line 209 has processed every node
LoopDone(todo) == todo = <<>>

\* a statement of lines 88-94 that also empties the dependents of the nodes
AssignClearingDependents(fr, local, value, next) ==
    [fr EXCEPT ![local] = value, !.ran[local] = @ + 1, !.pc = next,
               !.nodes = [f \in DOMAIN fr.nodes |->
                            [fr.nodes[f] EXCEPT !.dependents = EmptyBag]]]

\* a statement `local = self._phase(nodes)` of lines 88-94: it binds one
\* local and calls a method that only reads the nodes
Assign(fr, local, value, next) ==
    [fr EXCEPT ![local] = value, !.ran[local] = @ + 1, !.pc = next]

InitPhases == Init

\* lines 54-84: the nodes are created and added to the backing graph
Call ==
    /\ frame = NoCall
    /\ \E selected \in Selections(all_files, MaxSelected - 1) :
         \E statements \in ReuseContents[Range(NodeOrder(all_files, selected))] :
            LET order == NodeOrder(all_files, selected)
                new == Dict([f \in Range(order) |-> NewNode(all_files, f, statements[f])])
                resolved == Dict([f \in Range(order) |->
                                    ResolveImports(all_files, root_dir, new[f])])
            IN /\ \A f \in Range(order) : \A imp \in new[f].imports :
                      resolved[f][imp] # Raises
               /\ frame' = [status |-> "running", pc |-> "resolve",
                            selected |-> selected, statements |-> statements,
                            order |-> order, nodes |-> new, resolved |-> resolved,
                            todo |-> order,
                            missing_deps |-> {}, cycles |-> {},
                            metrics |-> <<>>, graph_data |-> <<>>,
                            ran |-> [flags |-> 0, missing_deps |-> 0, cycles |-> 0,
                                     metrics |-> 0, graph_data |-> 0]]
               /\ dependency_graph' = [dependency_graph EXCEPT !.nodes = @ \cup Range(order)]
    /\ UNCHANGED <<all_files, calls, selected_files, content, unreadable, unparsable,
                   result, helper_vars>>

\* one iteration of the loop of line 209
InsertEdges ==
    /\ frame.status = "running" /\ frame.pc = "resolve"
    /\ ~LoopDone(frame.todo)
    /\ LET f == Head(frame.todo)
           deps == Dependencies(FilePathToId(all_files, frame.selected),
                                frame.nodes[f], frame.resolved[f])
       IN /\ frame' = [frame EXCEPT !.nodes = InsertEdgesOf(frame.nodes, f, deps),
                                    !.todo = Tail(frame.todo)]
          /\ dependency_graph' = [dependency_graph EXCEPT
                                     !.edges = @ \cup {<<f, t>> : t \in BagToSet(deps)}]
    /\ UNCHANGED <<all_files, calls, selected_files, content, unreadable, unparsable,
                   result, helper_vars>>

\* lines 231-233, reached when the loop of line 209 has ended
FinalizeFlags ==
    /\ frame.status = "running" /\ frame.pc = "resolve"
    /\ LoopDone(frame.todo)
    /\ frame' = [frame EXCEPT !.nodes = FinalizeFlagsOf(frame.nodes),
                              !.ran.flags = @ + 1, !.pc = "missing_deps"]
    /\ UNCHANGED <<analyzer_vars, helper_vars>>

\* line 88
FindMissing ==
    /\ frame.status = "running" /\ frame.pc = "missing_deps"
    /\ frame' = Assign(frame, "missing_deps",
                       FindMissingDependencies(all_files, frame.selected, frame.nodes,
                                               frame.resolved),
                       "cycles")
    /\ UNCHANGED <<analyzer_vars, helper_vars>>

\* line 90
DetectCycles ==
    /\ frame.status = "running" /\ frame.pc = "cycles"
    /\ frame' = Assign(frame, "cycles",
                       DetectCircularDependencies(dependency_graph, all_files), "metrics")
    /\ UNCHANGED <<analyzer_vars, helper_vars>>

\* line 92
Metrics ==
    /\ frame.status = "running" /\ frame.pc = "metrics"
    /\ frame' = Assign(frame, "metrics", CalculateMetrics(frame.nodes, frame.order),
                       "graph_data")
    /\ UNCHANGED <<analyzer_vars, helper_vars>>

\* line 94
GraphData ==
    /\ frame.status = "running" /\ frame.pc = "graph_data"
    /\ frame' = Assign(frame, "graph_data", GenerateGraphData(frame.nodes), "return")
    /\ UNCHANGED <<analyzer_vars, helper_vars>>

\* lines 96-106
Return ==
    /\ frame.status = "running" /\ frame.pc = "return"
    /\ result' = [status |-> "returned",
                  order |-> frame.order,
                  nodes |-> frame.nodes,
                  missing_dependencies |-> frame.missing_deps,
                  circular_dependencies |-> frame.cycles,
                  metrics |-> frame.metrics,
                  graph |-> frame.graph_data,
                  completeness_score |->
                      CalculateCompletenessScore(SelectedCount(frame.selected, frame.order),
                                                 Cardinality(frame.missing_deps))]
    /\ calls' = calls + 1
    /\ selected_files' = frame.selected
    /\ content' = frame.statements
    /\ frame' = [frame EXCEPT !.status = "done"]
    /\ UNCHANGED <<all_files, dependency_graph, unreadable, unparsable, helper_vars>>

NextPhases ==
    \/ Call \/ InsertEdges \/ FinalizeFlags \/ FindMissing
    \/ DetectCycles \/ Metrics \/ GraphData \/ Return

SpecPhases == InitPhases /\ [][NextPhases]_vars

----------------------------------------------------------------------------
(* _suggest_missing_file on its own, on catalogs in every iteration order  *)

\* the sequences of distinct elements of S, at most n long
RECURSIVE Orderings(_, _)
Orderings(S, n) ==
    IF n = 0 THEN {<<>>}
    ELSE LET shorter == Orderings(S, n - 1) IN
         shorter \cup UNION {{Append(q, x) : x \in S \ Range(q)}
                              : q \in {q \in shorter : Len(q) = n - 1}}

\* lib/utils.js, src/my_utils.js, src/s.js, src/other.ts, pkg/utils.js
SuggestFilePool == {
    [id |-> "lib_utils_js", relative_path |-> << <<"lib">>, <<"utils", "js">> >>, extension |-> "js"],
    [id |-> "src_my_utils_js", relative_path |-> << <<"src">>, <<"my_utils", "js">> >>, extension |-> "js"],
    [id |-> "src_s_js", relative_path |-> << <<"src">>, <<"s", "js">> >>, extension |-> "js"],
    [id |-> "src_other_ts", relative_path |-> << <<"src">>, <<"other", "ts">> >>, extension |-> "ts"],
    [id |-> "pkg_utils_js", relative_path |-> << <<"pkg">>, <<"utils", "js">> >>, extension |-> "js"] }

\* pkg/utils.js, lib/utils.js, pkg/x.js
MissingPathPool == {
    << <<"pkg">>, <<"utils", "js">> >>, << <<"lib">>, <<"utils", "js">> >>,
    << <<"pkg">>, <<"x", "js">> >> }

InitSuggest ==
    /\ \E files \in Orderings(SuggestFilePool, MaxCatalog) : FreshAnalyzer(files)
    /\ score_args = <<0, 0>> /\ score = NoScore
    /\ resolve_call = NoCall
    /\ suggest_call \in {[status |-> "called", missing_path |-> p] : p \in MissingPathPool}
    /\ frame = NoCall

Suggest ==
    /\ suggest_call.status = "called"
    /\ suggest_call' = [status |-> "returned",
                        missing_path |-> suggest_call.missing_path,
                        value |-> SuggestMissingFile(all_files, suggest_call.missing_path)]
    /\ UNCHANGED <<analyzer_vars, score_args, score, resolve_call, frame>>

NextSuggest == Suggest

SpecSuggest == InitSuggest /\ [][NextSuggest]_vars

----------------------------------------------------------------------------
(* _resolve_import_path on its own, on catalogs in every iteration order   *)

\* pkg/x.js, pkg/x.ts, pkg/x.py, pkg/x/index.js, pkg/utils.js,
\* pkg/utils.helper.js
ResolveFilePool == {
    [id |-> "pkg_x_js", relative_path |-> << <<"pkg">>, <<"x", "js">> >>, extension |-> "js"],
    [id |-> "pkg_x_ts", relative_path |-> << <<"pkg">>, <<"x", "ts">> >>, extension |-> "ts"],
    [id |-> "pkg_x_py", relative_path |-> << <<"pkg">>, <<"x", "py">> >>, extension |-> "py"],
    [id |-> "pkg_x_index_js",
     relative_path |-> << <<"pkg">>, <<"x">>, <<"index", "js">> >>, extension |-> "js"],
    [id |-> "pkg_utils_js", relative_path |-> << <<"pkg">>, <<"utils", "js">> >>, extension |-> "js"],
    [id |-> "pkg_utils_helper_js",
     relative_path |-> << <<"pkg">>, <<"utils", "helper", "js">> >>, extension |-> "js"] }

\* "./x", "./x.js", "./utils.helper", "../pkg/x", "x"
ResolveSpecifierPool == {
    <<Dot, <<"x">>>>, <<Dot, <<"x", "js">>>>, <<Dot, <<"utils", "helper">>>>,
    <<DotDot, <<"pkg">>, <<"x">>>>, << <<"x">> >> }

InitResolve ==
    /\ \E files \in Orderings(ResolveFilePool, MaxCatalog) : FreshAnalyzer(files)
    /\ score_args = <<0, 0>> /\ score = NoScore
    /\ resolve_call \in {[status |-> "called", import_path |-> imp,
                           current_dir |-> << <<"pkg">> >>, file_type |-> t]
                          : imp \in ResolveSpecifierPool, t \in {"js", "py"}}
    /\ suggest_call = NoCall
    /\ frame = NoCall

Resolve ==
    /\ resolve_call.status = "called"
    /\ resolve_call' =
           [status |-> "returned",
            import_path |-> resolve_call.import_path,
            current_dir |-> resolve_call.current_dir,
            file_type |-> resolve_call.file_type,
            value |-> ResolveImportPath(all_files, root_dir, resolve_call.import_path,
                                        resolve_call.current_dir, resolve_call.file_type)]
    /\ UNCHANGED <<analyzer_vars, score_args, score, suggest_call, frame>>

NextResolve == Resolve

SpecResolve == InitResolve /\ [][NextResolve]_vars

----------------------------------------------------------------------------
(* _resolve_import_path on specifiers that climb out of the project root   *)

\* "..", "../x", "../..", "../../x", "../../.."
ClimbingSpecifierPool == {
    <<DotDot>>, <<DotDot, <<"x">>>>, <<DotDot, DotDot>>,
    <<DotDot, DotDot, <<"x">>>>, <<DotDot, DotDot, DotDot>> }

\* the importing directories: the project root, "pkg" and "pkg/x"
ImportingDirs == { <<>>, << <<"pkg">> >>, << <<"pkg">>, <<"x">> >> }

InitClimb ==
    /\ \E files \in Orderings(ResolveFilePool, MaxCatalog - 1) : FreshAnalyzer(files)
    /\ score_args = <<0, 0>> /\ score = NoScore
    /\ resolve_call \in {[status |-> "called", import_path |-> imp,
                           current_dir |-> dir, file_type |-> t]
                          : imp \in ClimbingSpecifierPool, dir \in ImportingDirs,
                            t \in {"js", "py"}}
    /\ suggest_call = NoCall
    /\ frame = NoCall

SpecClimb == InitClimb /\ [][NextResolve]_vars

----------------------------------------------------------------------------
(* Catalogs that hold a file of another kind: a stylesheet next to the      *)
(* scripts, with text the import patterns would match in a script           *)

\* main.js and s.css at the project root
AssetCatalog == <<
    [id |-> "main_js", relative_path |-> << <<"main", "js">> >>, extension |-> "js"],
    [id |-> "s_css", relative_path |-> << <<"s", "css">> >>, extension |-> "css"] >>

\* the same with s.js beside s.css
AssetCatalogWithScript ==
    Append(AssetCatalog,
           [id |-> "s_js", relative_path |-> << <<"s", "js">> >>, extension |-> "js"])

\* "./s", "./s.css", "./main"
AssetSpecifierPool ==
    { <<Dot, <<"s">>>>, <<Dot, <<"s", "css">>>>, <<Dot, <<"main">>>> }

AssetContents ==
    Dict([ids \in SUBSET CatalogIds(AssetCatalogWithScript) |->
            Contents(ids, AssetSpecifierPool, MaxStatements)])

InitAssets ==
    /\ \E files \in {AssetCatalog, AssetCatalogWithScript} : ConstructedOn(files)
    /\ score_args = <<0, 0>>
    /\ score = NoScore

\* one call on a fresh analyzer
AnalyzeAssets ==
    /\ calls = 0
    /\ \E selected \in Selections(all_files, MaxSelected) :
         \E statements \in AssetContents[Range(NodeOrder(all_files, selected))] :
             Analyze(selected, statements)

NextAssets == AnalyzeAssets \/ Construct

SpecAssets == InitAssets /\ [][NextAssets]_vars

----------------------------------------------------------------------------
(* A Python package: modules that import their siblings and their package  *)

\* pkg/m.py, pkg/b.py and pkg.py
PackageCatalog == <<
    [id |-> "pkg_m_py", relative_path |-> << <<"pkg">>, <<"m", "py">> >>, extension |-> "py"],
    [id |-> "pkg_b_py", relative_path |-> << <<"pkg">>, <<"b", "py">> >>, extension |-> "py"],
    [id |-> "pkg_py", relative_path |-> << <<"pkg", "py">> >>, extension |-> "py"] >>

PackageContents ==
    Dict([ids \in SUBSET CatalogIds(PackageCatalog) |->
            FileContents(PackageCatalog, ids, MaxStatements)])

InitPackage == ConstructedOn(PackageCatalog) /\ score_args = <<0, 0>> /\ score = NoScore

\* one call on a fresh analyzer
AnalyzePackage ==
    /\ calls = 0
    /\ \E selected \in Selections(all_files, MaxSelected - 1) :
         LET ids == Range(NodeOrder(all_files, selected)) IN
         \E statements \in PackageContents[ids] :
             \E fault \in Faults(all_files, ids) :
                 AnalyzeReading(selected, statements, fault.failing, fault.broken)

NextPackage == AnalyzePackage \/ Construct

SpecPackage == InitPackage /\ [][NextPackage]_vars

----------------------------------------------------------------------------
(* Properties of a returned result *)

Returned == result.status = "returned"
NodeIds == DOMAIN result.nodes
PathOf(file_id) == FileInfo(all_files, file_id).relative_path

\* what the import `imp` of node f resolves to
ResolvesTo(f, imp) ==
    ResolveImportPathOnce(all_files, root_dir, imp,
                          Parent(result.nodes[f].file_path), result.nodes[f].file_type)

\* the missing-dependency entries for the import `imp` of node f
EntriesFor(f, imp) ==
    {e \in result.missing_dependencies : e.required_by = f /\ e.missing_import = imp}

\* C1: for selected files A and B where A holds a relative import resolving
\* to B's path, B occurs exactly once in A's dependencies and A exactly
\* once in B's dependents, however many specifiers of A resolve to B.
C1_EdgeRecordedOnce ==
    Returned =>
        \A A \in NodeIds, B \in NodeIds :
            (/\ A # B
             /\ \E imp \in result.nodes[A].imports :
                    StartsWithDot(imp) /\ ResolvesTo(A, imp) = PathOf(B))
            => /\ CopiesIn(B, result.nodes[A].dependencies) = 1
               /\ CopiesIn(A, result.nodes[B].dependents) = 1

\* C2: every relative import of a selected file that matches no catalog
\* entry yields exactly one MissingDependency, with no suggested file,
\* confidence 0.0 and reason "File not found".
C2_UnresolvedImportReported ==
    Returned =>
        \A f \in NodeIds : \A imp \in result.nodes[f].imports :
            (StartsWithDot(imp) /\ ResolvesTo(f, imp) = None)
            => /\ Cardinality(EntriesFor(f, imp)) = 1
               /\ \A e \in EntriesFor(f, imp) :
                      /\ e.suggested_file = NoSuggestion.file_id
                      /\ e.confidence = 0
                      /\ e.reason = "File not found"

\* the import `imp` of node f resolves to a catalog file outside the selection
ResolvesOutsideSelection(f, imp) ==
    /\ IsPath(ResolvesTo(f, imp))
    /\ InCatalog(all_files, ResolvesTo(f, imp))
    /\ ResolvesTo(f, imp) \notin SelectedPaths(all_files, selected_files)

\* the ids of the catalog files at a relative path
IdsAt(relative_path) ==
    {all_files[i].id : i \in {i \in DOMAIN all_files : all_files[i].relative_path = relative_path}}

\* C3: every import of a selected file that resolves to a catalog file
\* outside the selection yields exactly one MissingDependency, with
\* confidence 1.0, reason "Exact path match found" and that file's id as
\* the suggestion, and no edge: the id is in no node's dependencies and is
\* the target of no edge of the graph view.
C3_OutsideSelectionIsMissingNotEdge ==
    Returned =>
        \A f \in NodeIds : \A imp \in result.nodes[f].imports :
            ResolvesOutsideSelection(f, imp)
            => /\ Cardinality(EntriesFor(f, imp)) = 1
               /\ \A e \in EntriesFor(f, imp) :
                      /\ e.confidence = 10
                      /\ e.reason = "Exact path match found"
                      /\ IdsAt(ResolvesTo(f, imp)) = {e.suggested_file}
                      /\ \A g \in NodeIds :
                             ~BagIn(e.suggested_file, result.nodes[g].dependencies)
                      /\ \A edge \in BagToSet(result.graph.edges) :
                             edge[2] # e.suggested_file

C3_Witness ==
    /\ Returned
    /\ \E f \in NodeIds : \E imp \in result.nodes[f].imports :
           ResolvesOutsideSelection(f, imp) /\ EntriesFor(f, imp) # {}

\* C4: in every returned result, a node is an entry point iff its
\* dependents are empty and a leaf iff its dependencies are empty.
C4_FlagsMatchLists ==
    Returned =>
        \A f \in NodeIds :
            /\ result.nodes[f].is_entry_point <=> result.nodes[f].dependents = EmptyBag
            /\ result.nodes[f].is_leaf <=> result.nodes[f].dependencies = EmptyBag

C4_Witness ==
    /\ Returned
    /\ \E f \in NodeIds, g \in NodeIds :
           /\ ~result.nodes[f].is_entry_point /\ result.nodes[f].is_leaf
           /\ result.nodes[g].is_entry_point /\ ~result.nodes[g].is_leaf

\* the edge relation the nodes of the result describe
DependencyRelation ==
    {e \in NodeIds \X NodeIds : BagIn(e[2], result.nodes[e[1]].dependencies)}

\* the rotation of a cycle that starts at its first id in catalog order
Canonical(cycle) ==
    LET rank == CatalogRank(all_files)
        k == CHOOSE i \in DOMAIN cycle : \A j \in DOMAIN cycle : rank[cycle[i]] <= rank[cycle[j]]
    IN [i \in 1..Len(cycle) |-> cycle[((k + i - 2) % Len(cycle)) + 1]]

\* a closed walk along `edges` that repeats no node
IsElementaryCycle(cycle, edges) ==
    /\ cycle # <<>>
    /\ \A i \in DOMAIN cycle, j \in DOMAIN cycle : cycle[i] = cycle[j] => i = j
    /\ \A i \in DOMAIN cycle : <<cycle[i], cycle[(i % Len(cycle)) + 1]>> \in edges

ElementaryCycles(nodes, edges) ==
    {Canonical(cycle) : cycle \in {c \in SeqsUpTo(nodes, Cardinality(nodes)) :
                                      IsElementaryCycle(c, edges)}}

\* C5: on a fresh analyzer the cycle list, as a set of cycles up to
\* rotation, is the set of elementary cycles of the relation "B is in A's
\* dependencies" over the selected nodes.
C5_CyclesAreTheElementaryCycles ==
    Returned =>
        {Canonical(cycle) : cycle \in result.circular_dependencies}
            = ElementaryCycles(NodeIds, DependencyRelation)

\* A -> B -> C -> A is reported as one cycle over the three files
C5_Witness ==
    /\ Returned
    /\ DependencyRelation = {<<"pkg_a_js", "pkg_b_js">>, <<"pkg_b_js", "pkg_c_js">>,
                             <<"pkg_c_js", "pkg_a_js">>}
    /\ result.circular_dependencies = {<<"pkg_a_js", "pkg_b_js", "pkg_c_js">>}

\* C6: after any sequence of calls on one analyzer, the backing graph has
\* only ids of the current selection as nodes and exactly the current
\* result's dependencies as edges, so no reported cycle holds an id that
\* only an earlier call selected.
C6_GraphIsTheCurrentSelection ==
    Returned =>
        /\ dependency_graph.nodes \subseteq Range(selected_files)
        /\ dependency_graph.edges = DependencyRelation
        /\ \A cycle \in result.circular_dependencies :
               Range(cycle) \subseteq Range(selected_files)

\* C7 as claimed: 100.0 when nothing is missing, below 100 otherwise, for
\* every selected count.
C7_ScoreAsClaimed ==
    score # NoScore =>
        /\ score_args[2] = 0 => score.value = 10000
        /\ score_args[2] > 0 => score.value < 10000

\* C7 as amended: 0.0 for no selected file; otherwise 100.0 when nothing
\* is missing, never above 100, and below 100 exactly when fewer than
\* 19999 files are selected per missing one (from there on the rounding
\* to 2 decimals gives 100.0).
C7_ScoreAmended ==
    score # NoScore =>
        LET selected_count == score_args[1]
            missing_count == score_args[2]
        IN /\ selected_count = 0 => score.value = 0
           /\ (selected_count > 0 /\ missing_count = 0) => score.value = 10000
           /\ score.value <= 10000
           /\ (selected_count > 0 /\ missing_count > 0)
              => (score.value < 10000 <=> selected_count < 19999 * missing_count)

\* 20000 selected and 1 missing: scored 100.0
C7_Witness ==
    score_args = <<20000, 1>> /\ score # NoScore /\ score.value = 10000

\* C8: coupling_score is 0 when total_files <= 1 and within [0, 100]
\* otherwise (in hundredths: within 0..10000).
C8_CouplingScoreInRange ==
    Returned =>
        /\ result.metrics.total_files <= 1 => result.metrics.coupling_score = 0
        /\ result.metrics.coupling_score >= 0
        /\ result.metrics.coupling_score <= 10000

\* C9: a file that imports its own path gets no self-edge: no node is in
\* its own dependencies or dependents, and no reported cycle has length 1.
C9_NoSelfEdge ==
    Returned =>
        /\ \A f \in NodeIds :
               /\ ~BagIn(f, result.nodes[f].dependencies)
               /\ ~BagIn(f, result.nodes[f].dependents)
        /\ \A cycle \in result.circular_dependencies : Len(cycle) # 1

C9_Witness ==
    /\ Returned
    /\ \E f \in NodeIds : \E imp \in result.nodes[f].imports :
           ResolvesTo(f, imp) = PathOf(f)

\* the end-to-end scenario: pkg/a imports './b', pkg/b imports './c', both
\* selected, pkg/c in the catalog only
C10_Scenario ==
    /\ Returned
    /\ selected_files = <<"pkg_a_js", "pkg_b_js">>
    /\ content = ("pkg_a_js" :> SetToBag({<<Dot, <<"b">>>>}))
                 @@ ("pkg_b_js" :> SetToBag({<<Dot, <<"c">>>>}))

\* C10: in that scenario a.dependencies = {b}, b.dependents = {a},
\* b.dependencies = {}, the one missing entry is b -> './c' with
\* confidence 1.0, a is the only entry point, b the only leaf, no cycle.
C10_EndToEnd ==
    C10_Scenario =>
        /\ result.nodes["pkg_a_js"].dependencies = SetToBag({"pkg_b_js"})
        /\ result.nodes["pkg_b_js"].dependents = SetToBag({"pkg_a_js"})
        /\ result.nodes["pkg_b_js"].dependencies = EmptyBag
        /\ Cardinality(result.missing_dependencies) = 1
        /\ \A e \in result.missing_dependencies :
               /\ e.required_by = "pkg_b_js"
               /\ e.missing_import = <<Dot, <<"c">>>>
               /\ e.confidence = 10
        /\ {f \in NodeIds : result.nodes[f].is_entry_point} = {"pkg_a_js"}
        /\ {f \in NodeIds : result.nodes[f].is_leaf} = {"pkg_b_js"}
        /\ result.metrics.entry_points = 1
        /\ result.metrics.leaf_nodes = 1
        /\ result.circular_dependencies = {}

----------------------------------------------------------------------------
(* Properties of the calls of SpecFiles *)

\* how often the statements of node f name the specifier imp
TimesWritten(f, imp) == CopiesIn(imp, content[f])

\* the import statements of a readable node f that name a catalog file
\* outside the selection
MissingOccurrences(f) ==
    {imp \in BagToSet(content[f]) :
        /\ f \notin unreadable
        /\ imp \in result.nodes[f].imports
        /\ ResolvesOutsideSelection(f, imp)}

\* C11: one MissingDependency per out-of-selection import occurrence: a
\* file naming two such modules gets two entries, and a file naming the same
\* one in two import statements gets two entries as well.
C11_EntryPerOccurrence ==
    Returned =>
        \A f \in NodeIds : \A imp \in MissingOccurrences(f) :
            Cardinality(EntriesFor(f, imp)) = TimesWritten(f, imp)

\* the metrics of a result without nodes
ZeroMetrics ==
    [total_files |-> 0, entry_points |-> 0, leaf_nodes |-> 0,
     average_dependencies |-> 0, max_dependencies |-> 0,
     most_dependent_file |-> NoFile, coupling_score |-> 0]

\* C12: a call returns a result whatever ids it is given; the ids the
\* catalog does not know get no node, the others do; and for an empty
\* selection the result has no nodes, no missing dependencies, no cycles,
\* all metrics zero with no most dependent file, and completeness_score 0.
C12_UnknownSkippedEmptyIsZero ==
    calls > 0 =>
        /\ Returned
        /\ NodeIds = Range(selected_files) \cap CatalogIds(all_files)
        /\ selected_files = <<>> =>
               /\ NodeIds = {}
               /\ result.missing_dependencies = {}
               /\ result.circular_dependencies = {}
               /\ result.metrics = ZeroMetrics
               /\ DOMAIN result.graph.nodes = {}
               /\ result.graph.edges = EmptyBag
               /\ result.completeness_score = 0

\* the empty selection was analysed
C12_Witness == calls > 0 /\ Returned /\ selected_files = <<>>

\* the keys of the dict analyze_dependencies returns (lines 96-106), and
\* the two fields the model adds: whether the call returned, and the
\* iteration order of `nodes`
ResultKeys ==
    {"nodes", "missing_dependencies", "circular_dependencies", "metrics", "graph",
     "completeness_score"} \cup {"status", "order"}

\* the last call's result had every unreadable file been empty instead
ResultAsIfEmpty ==
    AnalyzeDependencies(all_files, root_dir, [nodes |-> {}, edges |-> {}], selected_files,
                        [f \in DOMAIN content |->
                            IF f \in unreadable THEN EmptyBag ELSE content[f]]).result

\* C13: when a selected file cannot be read it still gets a node with no
\* imports and no exports, every other file is analysed as if that file had
\* been empty,
\* and the error is recorded in an error list that comes with the result.
C13_ReadFailureRecorded ==
    (Returned /\ unreadable # {}) =>
        /\ \A f \in unreadable :
               /\ f \in NodeIds
               /\ result.nodes[f].imports = {}
               /\ result.nodes[f].exports = {}
        /\ \A key \in ResultKeys \ {"nodes"} : result[key] = ResultAsIfEmpty[key]
        /\ \A f \in NodeIds \ unreadable : result.nodes[f] = ResultAsIfEmpty.nodes[f]
        /\ DOMAIN result \ ResultKeys # {}

\* the specifiers the filter keeps: relative, or holding '/' or a leading '@'
PassesFilter(imp) == StartsWithDot(imp) \/ ContainsSlash(imp) \/ StartsWithAt(imp)

\* C14: in every analysed file, whatever its language, the imports of the
\* node are the written specifiers that are relative or hold '/' or start
\* with '@'; a bare module name is in no node's imports.
C14_FilterInEveryLanguage ==
    Returned =>
        \A f \in NodeIds \ unreadable :
            result.nodes[f].imports = {imp \in BagToSet(content[f]) : PassesFilter(imp)}

\* the file name of a relative path
NameOf(relative_path) == relative_path[Len(relative_path)]

\* C15: the tiers of _suggest_missing_file apply in strict order: an exact
\* relative-path match gives 1.0; otherwise a catalog file with exactly the
\* missing file name gives 0.8, wherever it stands in the catalog;
\* otherwise a substring match gives 0.5; otherwise there is no suggestion.
C15_TiersInStrictOrder ==
    suggest_call.status = "returned" =>
        LET missing_path == suggest_call.missing_path
            paths == {all_files[i].relative_path : i \in DOMAIN all_files}
            exact == missing_path \in paths
            same == \E p \in paths : NameOf(p) = NameOf(missing_path)
            similar == \E p \in paths :
                          \/ NameContains(NameOf(p), NameOf(missing_path))
                          \/ NameContains(NameOf(missing_path), NameOf(p))
        IN suggest_call.value.confidence =
               IF exact THEN 10 ELSE IF same THEN 8 ELSE IF similar THEN 5 ELSE 0

\* the relative imports of node f that resolve to the selected file t
RelativeImportsOnto(f, t) ==
    {imp \in result.nodes[f].imports :
        /\ StartsWithDot(imp)
        /\ ResolvesTo(f, imp) = PathOf(t)
        /\ t \in Range(selected_files)}

\* C16: a specifier that does not start with '.' resolves to nothing,
\* whatever the catalog holds; it yields no MissingDependency, and every
\* edge of a node is accounted for by one of its relative imports.
C16_NonRelativeNeverResolved ==
    Returned =>
        \A f \in NodeIds :
            /\ \A imp \in result.nodes[f].imports :
                   ~StartsWithDot(imp) => /\ ResolvesTo(f, imp) = None
                                          /\ EntriesFor(f, imp) = {}
            /\ \A t \in CatalogIds(all_files) \ {f} :
                   CopiesIn(t, result.nodes[f].dependencies)
                       = Cardinality(RelativeImportsOnto(f, t))

\* main.js names 'pkg/b', which is the path of the selected pkg/b.js
C16_Witness ==
    /\ Returned
    /\ {"main_js", "pkg_b_js"} \subseteq NodeIds
    /\ << <<"pkg">>, <<"b">> >> \in result.nodes["main_js"].imports
    /\ result.nodes["main_js"].dependencies = EmptyBag

\* the relative paths of the catalog
CatalogPaths == {all_files[i].relative_path : i \in DOMAIN all_files}

\* the path a relative specifier names, from the project root
NamedPath == RelativeTo(PathResolve(root_dir \o resolve_call.current_dir
                                       \o resolve_call.import_path), root_dir)

\* the path with `ext` appended to its last segment
PlusExtension(path, ext) == Append(Parent(path), Append(path[Len(path)], ext))

\* the candidates in the claimed precedence: the path plus each extension
\* of the family, then index.<ext> under the path for each extension
CandidatesInOrder ==
    LET extensions == Extensions(resolve_call.file_type) IN
    [i \in DOMAIN extensions |-> PlusExtension(NamedPath, extensions[i])]
    \o [i \in DOMAIN extensions |-> Append(NamedPath, <<"index", extensions[i]>>)]

\* the first candidate that is a catalog path, None when there is none
FirstCandidateInCatalog ==
    LET hits == {i \in DOMAIN CandidatesInOrder : CandidatesInOrder[i] \in CatalogPaths}
    IN IF hits = {} THEN None ELSE CandidatesInOrder[Min(hits)]

\* the last segment of the specifier holds a dot of its own
LastSegmentDotted == HasSuffix(NameOf(resolve_call.import_path))

\* C17: for a relative specifier (whose last segment has no dot), the
\* resolver returns the first catalog match among x.<ext> for the family's
\* extensions in order, then x/index.<ext>; the direct file wins over the
\* directory index, and the catalog's iteration order plays no part.
C17_DirectBeforeIndex ==
    (/\ resolve_call.status = "returned"
     /\ StartsWithDot(resolve_call.import_path)
     /\ ~LastSegmentDotted)
    => resolve_call.value = FirstCandidateInCatalog

\* './x' with x/index.js standing before x.js in the catalog
C17_Witness ==
    /\ resolve_call.status = "returned"
    /\ resolve_call.import_path = <<Dot, <<"x">>>>
    /\ resolve_call.file_type = "js"
    /\ \E i \in DOMAIN all_files, j \in DOMAIN all_files :
           /\ i < j
           /\ all_files[i].id = "pkg_x_index_js"
           /\ all_files[j].id = "pkg_x_js"
    /\ resolve_call.value = << <<"pkg">>, <<"x", "js">> >>

\* C18: the direct candidates are the path with each extension appended,
\* also when the last segment of the specifier already holds a dot:
\* './utils.helper' is tested as 'utils.helper.js', not as 'utils.js'.
C18_ExtensionAppended ==
    (/\ resolve_call.status = "returned"
     /\ StartsWithDot(resolve_call.import_path)
     /\ LastSegmentDotted)
    => resolve_call.value = FirstCandidateInCatalog

\* a call is being followed, or has been followed to its return
Followed == frame.status \in {"running", "done"}

\* the nodes once every edge of the selection is inserted and the flags set
FinishedNodes ==
    ResolveDependencies(all_files, frame.selected,
                        Dict([f \in Range(frame.order) |->
                                NewNode(all_files, f, frame.statements[f])]),
                        frame.resolved)

\* C19: the flags are computed once, after the edges of every node have
\* been inserted; the missing-dependency pass, the cycle detection, the
\* metrics and the graph view each run once and only after the flags; so
\* the flags the metrics and the graph view read are those of the finished
\* graph.
C19_PhasesAfterFinalization ==
    Followed =>
        /\ \A phase \in DOMAIN frame.ran : frame.ran[phase] <= 1
        /\ frame.ran.flags = 1 => /\ frame.todo = <<>>
                                  /\ frame.nodes = FinishedNodes
        /\ \A phase \in DOMAIN frame.ran : frame.ran[phase] = 1 => frame.ran.flags = 1
        /\ frame.ran.metrics = 1 =>
               frame.metrics = CalculateMetrics(FinishedNodes, frame.order)
        /\ frame.ran.graph_data = 1 => frame.graph_data = GenerateGraphData(FinishedNodes)
        /\ frame.status = "done" =>
               \A phase \in DOMAIN frame.ran : frame.ran[phase] = 1

\* a call over two files with an edge between them has returned
C19_Witness ==
    /\ frame.status = "done"
    /\ Returned
    /\ Cardinality(NodeIds) = 2
    /\ \E f \in NodeIds : ~result.nodes[f].is_entry_point

\* C20: once the flags are set, no later statement of the call changes a
\* node: imports, exports, dependencies, dependents and both flags stay as
\* they are, up to the nodes of the returned result.
C20_NodesFrozenAfterFinalization ==
    [][(Followed /\ frame.ran.flags = 1)
       => /\ frame'.nodes = frame.nodes
          /\ frame'.status = "done" => result'.nodes = frame.nodes]_vars

\* the later phases ran on nodes that have an edge
C20_Witness ==
    /\ frame.status = "done"
    /\ frame.ran.graph_data = 1
    /\ \E f \in DOMAIN frame.nodes : frame.nodes[f].dependents # EmptyBag
    /\ result.nodes = frame.nodes

\* the length of the dependents list of node f in the result
DependentCount(f) == BagCardinality(result.nodes[f].dependents)

\* C21: most_dependent_file is null only for a result without nodes;
\* otherwise it is the node with the most dependents, the first such node
\* in the iteration order of the nodes, also when that count is 0.
C21_MostDependentIsFirstMaximum ==
    Returned =>
        LET most == result.metrics.most_dependent_file
            order == result.order
        IN IF order = <<>> THEN most = NoFile
           ELSE \E i \in DOMAIN order :
                    /\ most.file_id = order[i]
                    /\ most.file_path = PathOf(order[i])
                    /\ most.dependent_count = DependentCount(order[i])
                    /\ \A j \in DOMAIN order : DependentCount(order[j]) <= DependentCount(order[i])
                    /\ \A j \in 1..(i - 1) : DependentCount(order[j]) < DependentCount(order[i])

\* two nodes without any dependent: the first is reported, with count 0
C21_Witness ==
    /\ Returned
    /\ Len(result.order) >= 2
    /\ \A f \in NodeIds : DependentCount(f) = 0
    /\ result.metrics.most_dependent_file.file_id = result.order[1]
    /\ result.metrics.most_dependent_file.dependent_count = 0

\* C22: a .py file that does not parse still gets its node, whose imports
\* are what the line patterns match (the module texts as written); the call
\* returns, and every other node is what it is when that file parses.
C22_SyntaxErrorFallsBack ==
    (calls > 0 /\ unparsable # {}) =>
        /\ Returned
        /\ \A f \in unparsable :
               /\ f \in NodeIds
               /\ result.nodes[f].imports = BagToSet(content[f])
        /\ \A f \in NodeIds \ unparsable :
               result.nodes[f].imports =
                   AnalyzeDependencies(all_files, root_dir, [nodes |-> {}, edges |-> {}],
                                       selected_files, content).result.nodes[f].imports

\* a .py file that does not parse names '.b' and sits next to another node
C22_Witness ==
    /\ Returned
    /\ unparsable = {"pkg_m_py"}
    /\ << <<"", "b">> >> \in result.nodes["pkg_m_py"].imports
    /\ Cardinality(NodeIds) = 2

\* the path the call's specifier names lies outside the project root
LeavesRoot ==
    ~IsRelativeTo(PathResolve(root_dir \o resolve_call.current_dir
                                 \o resolve_call.import_path),
                  root_dir)

\* C23: a relative specifier whose normalised path leaves the project root
\* never makes the resolver raise: the answer is "unresolved", for every
\* importing directory and catalog.
C23_LeavingRootIsUnresolved ==
    (resolve_call.status = "returned" /\ LeavesRoot) => resolve_call.value = None

\* C24: every MissingDependency of a result has confidence 1.0, the reason
\* "Exact path match found" and, as suggestion, the id of a catalog file
\* whose path is outside the selection; no other tier is produced.
C24_OnlyExactTier ==
    Returned =>
        \A e \in result.missing_dependencies :
            /\ e.confidence = 10
            /\ e.reason = "Exact path match found"
            /\ e.suggested_file \in CatalogIds(all_files)
            /\ PathOf(e.suggested_file) \notin SelectedPaths(all_files, selected_files)

\* a result with a missing entry next to an import that resolves to nothing
C24_Witness ==
    /\ Returned
    /\ result.missing_dependencies # {}
    /\ \E f \in NodeIds : \E imp \in result.nodes[f].imports : ResolvesTo(f, imp) = None

\* the import `imp` of node f resolves to a selected file other than f
ResolvesToOtherSelected(f, imp) ==
    /\ IsPath(ResolvesTo(f, imp))
    /\ ResolvesTo(f, imp) \in SelectedPaths(all_files, selected_files)
    /\ ResolvesTo(f, imp) # PathOf(f)

\* the pairs of a node and one of its specifiers
ImportPairs == UNION {{<<f, imp>> : imp \in result.nodes[f].imports} : f \in NodeIds}

\* C25: each (node, specifier) pair has exactly one outcome: an edge when
\* it resolves to another selected file, a MissingDependency when it
\* resolves to a catalog file outside the selection, nothing otherwise; so
\* each node has as many dependencies as specifiers of the first kind, and
\* the result as many missing entries as pairs of the second kind.
C25_OneOutcomePerImport ==
    Returned =>
        /\ \A pair \in ImportPairs :
               /\ ~(ResolvesToOtherSelected(pair[1], pair[2])
                     /\ ResolvesOutsideSelection(pair[1], pair[2]))
               /\ Cardinality(EntriesFor(pair[1], pair[2]))
                      = IF ResolvesOutsideSelection(pair[1], pair[2]) THEN 1 ELSE 0
        /\ \A f \in NodeIds :
               /\ BagCardinality(result.nodes[f].dependencies)
                      = Cardinality({imp \in result.nodes[f].imports :
                                        ResolvesToOtherSelected(f, imp)})
               /\ \A t \in BagToSet(result.nodes[f].dependencies) :
                      CopiesIn(t, result.nodes[f].dependencies)
                          = Cardinality({imp \in result.nodes[f].imports :
                                            /\ ResolvesToOtherSelected(f, imp)
                                            /\ ResolvesTo(f, imp) = PathOf(t)})
        /\ Cardinality(result.missing_dependencies)
               = Cardinality({pair \in ImportPairs :
                                 ResolvesOutsideSelection(pair[1], pair[2])})
        /\ \A e \in result.missing_dependencies :
               <<e.required_by, e.missing_import>> \in ImportPairs

\* one file with an edge, a missing entry and an import without outcome
C25_Witness ==
    /\ Returned
    /\ \E f \in NodeIds :
           /\ \E imp \in result.nodes[f].imports : ResolvesToOtherSelected(f, imp)
           /\ \E imp \in result.nodes[f].imports : ResolvesOutsideSelection(f, imp)
           /\ \E imp \in result.nodes[f].imports : ~IsPath(ResolvesTo(f, imp))

\* C26: the edge data of a result agree: B occurs in A.dependencies as
\* often as A occurs in B.dependents, every id in a dependencies or
\* dependents list is a node of the result, graph.edges has one entry per
\* element of each dependencies list, and the counts of a graph node are
\* the lengths of the node's two lists.
C26_EdgeDataConsistent ==
    Returned =>
        /\ \A a \in NodeIds : \A b \in NodeIds :
               CopiesIn(b, result.nodes[a].dependencies)
                   = CopiesIn(a, result.nodes[b].dependents)
        /\ \A a \in NodeIds :
               /\ BagToSet(result.nodes[a].dependencies) \subseteq NodeIds
               /\ BagToSet(result.nodes[a].dependents) \subseteq NodeIds
        /\ DOMAIN result.graph.edges
               = {pair \in NodeIds \X NodeIds :
                     CopiesIn(pair[2], result.nodes[pair[1]].dependencies) > 0}
        /\ \A pair \in DOMAIN result.graph.edges :
               result.graph.edges[pair]
                   = CopiesIn(pair[2], result.nodes[pair[1]].dependencies)
        /\ DOMAIN result.graph.nodes = NodeIds
        /\ \A a \in NodeIds :
               /\ result.graph.nodes[a].dependency_count
                      = BagCardinality(result.nodes[a].dependencies)
               /\ result.graph.nodes[a].dependent_count = DependentCount(a)

\* a result in which one node depends twice on another and a third node
\* depends on it once
C26_Witness ==
    /\ Returned
    /\ \E a \in NodeIds : \E b \in NodeIds : \E c \in NodeIds :
           /\ CopiesIn(b, result.nodes[a].dependencies) = 2
           /\ CopiesIn(b, result.nodes[c].dependencies) = 1
           /\ result.graph.nodes[b].dependent_count = 3

\* C27: the count used for completeness_score is the length of the list
\* of selected ids as passed, unknown and repeated ids included, not the
\* number of nodes; a selection of unknown ids only gives total_files 0
\* with completeness_score 100.0.
C27_SelectedCountIsListLength ==
    Returned =>
        LET n == Len(selected_files)
            m == Cardinality(result.missing_dependencies)
        IN /\ result.completeness_score
                  = IF n = 0 THEN 0 ELSE RoundHalfEven(10000 * n, n + m)
           /\ (n > 0 /\ NodeIds = {}) =>
                  /\ result.metrics.total_files = 0
                  /\ result.completeness_score = 10000

\* a non-empty selection of ids the catalog does not know
C27_Witness ==
    /\ Returned
    /\ selected_files # <<>>
    /\ Range(selected_files) \cap CatalogIds(all_files) = {}
    /\ result.metrics.total_files = 0

SourceExtensions == {"py", "js", "jsx", "ts", "tsx"}

\* C28: a selected file whose extension is none of .py, .js, .jsx, .ts,
\* .tsx is isolated: it has no imports, no import of any node resolves to
\* its path, its dependencies and dependents are empty, it is an entry
\* point and a leaf, and no MissingDependency is required by it or
\* suggests it.
C28_OtherExtensionIsolated ==
    Returned =>
        \A f \in NodeIds :
            result.nodes[f].file_type \notin SourceExtensions =>
                /\ result.nodes[f].imports = {}
                /\ \A pair \in ImportPairs : ResolvesTo(pair[1], pair[2]) # PathOf(f)
                /\ result.nodes[f].dependencies = EmptyBag
                /\ result.nodes[f].dependents = EmptyBag
                /\ result.nodes[f].is_entry_point
                /\ result.nodes[f].is_leaf
                /\ \A e \in result.missing_dependencies :
                       e.required_by # f /\ e.suggested_file # f

\* s.css is selected and holds text the patterns would match, and a
\* selected script imports './s.css', which resolves to s.js
C28_Witness ==
    /\ Returned
    /\ "s_css" \in NodeIds
    /\ content["s_css"] # EmptyBag
    /\ \E g \in NodeIds :
           /\ <<Dot, <<"s", "css">>>> \in result.nodes[g].imports
           /\ ResolvesTo(g, <<Dot, <<"s", "css">>>>) = << <<"s", "js">> >>

\* the .py nodes whose text was read and parsed
ParsedPythonNodes ==
    {f \in NodeIds \ (unreadable \cup unparsable) : result.nodes[f].file_type = "py"}

\* C29: for a .py file that parses, a relative import is recorded without
\* its leading dots, or not at all when it names dots only; no specifier of
\* the file begins with '.', so the file has no dependency and no
\* MissingDependency is required by it, whatever is selected or in the
\* catalog.
C29_ParsedPythonNeverResolves ==
    Returned =>
        \A f \in ParsedPythonNodes :
            /\ result.nodes[f].imports
                   = {<<StripDots(text[1])>> :
                         text \in {t \in BagToSet(content[f]) : StripDots(t[1]) # <<>>}}
            /\ \A imp \in result.nodes[f].imports : ~StartsWithDot(imp)
            /\ result.nodes[f].dependencies = EmptyBag
            /\ \A e \in result.missing_dependencies : e.required_by # f

\* pkg/m.py parses and names '.b' and '.', with its sibling pkg/b.py
\* selected and its package module pkg.py in the catalog
C29_Witness ==
    /\ Returned
    /\ NodeIds = {"pkg_m_py", "pkg_b_py"}
    /\ "pkg_m_py" \in ParsedPythonNodes
    /\ BagToSet(content["pkg_m_py"]) = { << <<"", "b">> >>, <<Dot>> }
    /\ result.nodes["pkg_m_py"].imports = { << <<"b">> >> }

\* the orders in which the ids of selected_files can be passed
SelectionOrders ==
    {p \in Orderings(Range(selected_files), Len(selected_files)) :
        Len(p) = Len(selected_files)}

\* what a fresh analyzer returns for the same files selected in the order p
ResultFor(p) ==
    AnalyzeDependencies(all_files, root_dir, [nodes |-> {}, edges |-> {}], p, content).result

\* C30: when no id is selected twice (the catalog's paths being distinct),
\* the result of a fresh analyzer does not depend on the order of the
\* selected ids: for every permutation the nodes are the same, with the
\* same dependencies and dependents as sets, and so are the set of missing
\* dependencies, the set of cycles and every metric but which of several
\* most dependent files is named.
C30_OrderIndependent ==
    (Returned /\ Cardinality(Range(selected_files)) = Len(selected_files)) =>
        \A p \in SelectionOrders :
            LET other == ResultFor(p) IN
            /\ DOMAIN other.nodes = NodeIds
            /\ \A f \in NodeIds :
                   /\ BagToSet(other.nodes[f].dependencies)
                          = BagToSet(result.nodes[f].dependencies)
                   /\ BagToSet(other.nodes[f].dependents)
                          = BagToSet(result.nodes[f].dependents)
            /\ other.missing_dependencies = result.missing_dependencies
            /\ {Canonical(cycle) : cycle \in other.circular_dependencies}
                   = {Canonical(cycle) : cycle \in result.circular_dependencies}
            /\ [other.metrics EXCEPT !.most_dependent_file = NoFile]
                   = [result.metrics EXCEPT !.most_dependent_file = NoFile]
            /\ other.metrics.most_dependent_file.dependent_count
                   = result.metrics.most_dependent_file.dependent_count

\* three distinct ids were selected, the result has an edge, and another
\* order of the same ids names another most dependent file
C30_Witness ==
    /\ Returned
    /\ Cardinality(Range(selected_files)) = 3
    /\ Len(selected_files) = 3
    /\ \E f \in NodeIds : result.nodes[f].dependencies # EmptyBag
    /\ \E p \in SelectionOrders :
           ResultFor(p).metrics.most_dependent_file
               # result.metrics.most_dependent_file
====
